---- MODULE Spec2Model ----
(***************************************************************************)
(* Model of the Modbus entities of switch.py and sensor.py: the register   *)
(* switch (ModbusBaseSwitch / ModbusRegisterSwitch), the coil switch       *)
(* (ModbusCoilSwitch) and the register sensor (ModbusRegisterSensor); the  *)
(* construction of an entity from its configuration, the restore hook,     *)
(* turn_on, turn_off and update, against a transport hub whose every call  *)
(* can succeed, raise a ConnectionException or return an exception         *)
(* response.  One entity is modelled at a time: entity says which.         *)
(***************************************************************************)
EXTENDS Integers, Sequences, FiniteSets, TLC

(***************************************************************************)
(* Bounds of the model.                                                    *)
(***************************************************************************)
\* width of a register word in the model (a Modbus register has 16 bits)
WordBits == 3
\* largest bit literal of a configuration token (%MX401.<bit>)
MaxBitLit == 2

Words == 0 .. (2 ^ WordBits - 1)

(***************************************************************************)
(* Values of the program.                                                  *)
(***************************************************************************)
\* self._is_on is None, True or False
Unknown == "Unknown"
On == "On"
Off == "Off"

CALL_TYPE_REGISTER_HOLDING == "holding"
CALL_TYPE_REGISTER_INPUT == "input"
STATE_ON == "on"

\* the offset added to the register of a %QX state token
QX_OFFSET == 200

\* What one call of the hub can do: return a result with .registers, raise
\* ConnectionException, or return a ModbusException / ExceptionResponse
\* object (the code tests both with one isinstance).
ResultKinds == {"ok", "ConnectionException", "ExceptionResponse"}

HubResult(kind, word) == [kind |-> kind, word |-> IF kind = "ok" THEN word ELSE 0]

VARIABLES
    entity,      \* the class of the entity: "register", "coil" or "sensor",
                 \* or "none" when its constructor raised
    entry,       \* the configuration entry the entity is constructed from
    cfg,         \* the fields __init__ sets and nothing changes afterwards
    is_on,       \* self._is_on
    available,   \* self._available
    added,       \* async_added_to_hass has run
    statusWord,  \* the device: the word of the register update() reads
    last,        \* the last call on the entity: its operation, the state
                 \* before it, the hub calls it made, what it raised
    lastCmd,     \* the last command issued: "none", On or Off
    streak,      \* the run of consecutive update() calls: is_on after its
                 \* first call, after its first call that read a word, and
                 \* whether a later call read a word again
    coil,        \* the device: the bit of the coil of a coil switch
    prev,        \* the call on a coil switch before the last one
    sensor,      \* the ModbusRegisterSensor object: its fields
    device,      \* the device: the words of the registers the sensor reads
    slast        \* the last call on the sensor

\* what the register switch does not touch
others == <<entity, entry, coil, prev, sensor, device, slast>>

vars == <<cfg, is_on, available, added, statusWord, last, lastCmd, streak, others>>

(***************************************************************************)
(* Text.  A Python str is a sequence of one-character strings.             *)
(***************************************************************************)
Digits == <<"0", "1", "2", "3", "4", "5", "6", "7", "8", "9">>

DigitSet == { Digits[i] : i \in DOMAIN Digits }

Upper ==
    { "A", "B", "C", "D", "E", "F", "G", "H", "I", "J", "K", "L", "M",
      "N", "O", "P", "Q", "R", "S", "T", "U", "V", "W", "X", "Y", "Z" }

RECURSIVE str_nat(_)
\* str(n) for an int n >= 0
str_nat(n) ==
    IF n < 10 THEN <<Digits[n + 1]>>
    ELSE str_nat(n \div 10) \o <<Digits[(n % 10) + 1]>>

\* str(n) for an int
str_int(n) == IF n < 0 THEN <<"-">> \o str_nat(0 - n) ELSE str_nat(n)

RECURSIVE int_of(_)
\* int(s) for a str of decimal digits
int_of(s) ==
    IF s = <<>> THEN 0
    ELSE 10 * int_of(SubSeq(s, 1, Len(s) - 1))
         + (CHOOSE d \in 0 .. 9 : Digits[d + 1] = s[Len(s)])

RECURSIVE span(_, _, _)
\* the first index from i on whose character is not in set
span(s, i, set) ==
    IF i <= Len(s) /\ s[i] \in set THEN span(s, i + 1, set) ELSE i

\* a match whose pattern makes the .bit part optional, the bit being 0 then
re_match_optional_bit(s) ==
    LET a == span(s, 2, Upper)
        d == span(s, a, DigitSet)
        e == span(s, d + 1, DigitSet)
    IN  IF Len(s) >= 1 /\ s[1] = "%" /\ a > 2 /\ d > a
        THEN IF d = Len(s) + 1
             THEN <<SubSeq(s, 1, a - 1), SubSeq(s, a, d - 1), <<"0">> >>
             ELSE IF s[d] = "." /\ e > d + 1 /\ e = Len(s) + 1
                  THEN <<SubSeq(s, 1, a - 1), SubSeq(s, a, d - 1),
                         SubSeq(s, d + 1, Len(s))>>
                  ELSE <<>>
        ELSE <<>>

\* re.match(r"^(%[A-Z]+)(\d+)\.(\d+)$", s): the three groups, <<>> for None
re_match(s) ==
    LET a == span(s, 2, Upper)
        d == span(s, a, DigitSet)
        e == span(s, d + 1, DigitSet)
    IN  IF /\ Len(s) >= 1 /\ s[1] = "%"
           /\ a > 2
           /\ d > a
           /\ d <= Len(s) /\ s[d] = "."
           /\ e > d + 1
           /\ e = Len(s) + 1
        THEN <<SubSeq(s, 1, a - 1), SubSeq(s, a, d - 1), SubSeq(s, d + 1, Len(s))>>
        ELSE <<>>

(***************************************************************************)
(* Pure helpers.                                                           *)
(***************************************************************************)
\* int(pow(2, e)): pow(2, -1) is 0.5 and int() truncates it to 0
IntPow2(e) == IF e < 0 THEN 0 ELSE 2 ^ e

RECURSIVE bitwise_and(_, _)
\* np.bitwise_and on two non-negative integers
bitwise_and(a, b) ==
    IF a = 0 \/ b = 0 THEN 0
    ELSE (IF a % 2 = 1 /\ b % 2 = 1 THEN 1 ELSE 0)
         + 2 * bitwise_and(a \div 2, b \div 2)

(***************************************************************************)
(* Construction.  A token that matches ^(%[A-Z]+)(\d+)\.(\d+)$ is given by *)
(* its three groups: the area, int() of the index and int() of the bit.    *)
(***************************************************************************)
Token(area, index, bit) == [area |-> area, index |-> index, bit |-> bit]

MX == <<"%", "M", "X">>

QX == <<"%", "Q", "X">>

\* the command tokens of the configurations explored
CommandTokens == { Token(MX, 1, 0), Token(MX, 2, 1) }

\* the state tokens of the configurations explored
StateTokens ==
    { Token(a, 1, b) : a \in {QX, MX}, b \in 0 .. MaxBitLit }

Configs ==
    [ register : CommandTokens,
      state : StateTokens,
      register_type : {CALL_TYPE_REGISTER_HOLDING, CALL_TYPE_REGISTER_INPUT},
      verify_state : BOOLEAN ]

\* __init__ that keeps the 1-based register index of the command token
init_index_kept(config) ==
    LET register == config.register.index
        bit_position == config.register.bit + 1
        register_read ==
            IF config.state.area = QX
            THEN config.state.index + QX_OFFSET
            ELSE config.state.index
        bit_read == config.state.bit + 1
    IN  [ register |-> register,
          bit_position |-> bit_position,
          register_read_type |-> config.state.area,
          register_read |-> register_read,
          bit_read |-> bit_read,
          command_on |-> <<bit_position>>,
          command_off |-> <<bit_position>>,
          state_on |-> <<register_read, bit_read, bit_read>>,
          state_off |-> <<register_read, bit_read, 0>>,
          verify_state |-> config.verify_state,
          verify_register |-> IF "verify_register" \in DOMAIN config
                              THEN config.verify_register
                              ELSE register,
          register_type |-> config.register_type ]

\* ModbusRegisterSwitch.__init__: the fields of the constructed switch
init(config) ==
    LET register == config.register.index - 1
        bit_position == config.register.bit + 1
        register_read ==
            IF config.state.area = QX
            THEN config.state.index + QX_OFFSET
            ELSE config.state.index
        bit_read == config.state.bit + 1
    IN  [ register |-> register,
          bit_position |-> bit_position,
          register_read_type |-> config.state.area,
          register_read |-> register_read,
          bit_read |-> bit_read,
          command_on |-> <<bit_position>>,
          command_off |-> <<bit_position>>,
          state_on |-> <<register_read, bit_read, bit_read>>,
          state_off |-> <<register_read, bit_read, 0>>,
          verify_state |-> config.verify_state,
          verify_register |-> IF "verify_register" \in DOMAIN config
                              THEN config.verify_register
                              ELSE register,
          register_type |-> config.register_type ]

\* the text of a token
TokenText(t) == t.area \o str_nat(t.index) \o <<".">> \o str_nat(t.bit)

\* the configuration entries whose tokens match, as the schema hands them
\* to the constructor
Entries ==
    { [ register |-> TokenText(c.register),
        state |-> TokenText(c.state),
        register_type |-> c.register_type,
        verify_state |-> c.verify_state ] : c \in Configs }

\* tokens that do not match: %MX40, MX1.0, %mx1.0, %MX1., %MX.1, %1.0,
\* %MX1.0x, %MX1..0 and the empty string
BadTokens ==
    { <<"%", "M", "X", "4", "0">>,
      <<"M", "X", "1", ".", "0">>,
      <<"%", "m", "x", "1", ".", "0">>,
      <<"%", "M", "X", "1", ".">>,
      <<"%", "M", "X", ".", "1">>,
      <<"%", "1", ".", "0">>,
      <<"%", "M", "X", "1", ".", "0", "x">>,
      <<"%", "M", "X", "1", ".", ".", "0">>,
      <<>> }

\* entries with a malformed command token, state token or both
BadEntries ==
    { [e EXCEPT !.register = t] : e \in Entries, t \in BadTokens }
    \cup { [e EXCEPT !.state = t] : e \in Entries, t \in BadTokens }
    \cup { [e EXCEPT !.register = t, !.state = t] : e \in Entries, t \in BadTokens }

Groups(m) == Token(m[1], int_of(m[2]), int_of(m[3]))

\* ModbusRegisterSwitch.__init__ on a configuration entry: the exception
\* that leaves the constructor and the fields of the switch
construct(e) ==
    LET m == re_match(e.register)
        n == re_match(e.state)
    IN  IF m = <<>> \/ n = <<>>
        THEN [raised |-> "ValueError", fields |-> <<>>]
        ELSE [ raised |-> "none",
               fields |-> init(IF "verify_register" \in DOMAIN e
                               THEN [ register |-> Groups(m),
                                      state |-> Groups(n),
                                      register_type |-> e.register_type,
                                      verify_state |-> e.verify_state,
                                      verify_register |-> e.verify_register ]
                               ELSE [ register |-> Groups(m),
                                      state |-> Groups(n),
                                      register_type |-> e.register_type,
                                      verify_state |-> e.verify_state ]) ]

\* the entries explored for the optional verify_register: those with the
\* command token %MX2.1, without the option and with it
VerifyEntries ==
    LET some == { e \in Entries : e.register = TokenText(Token(MX, 2, 1)) }
    IN  some \cup { [ register |-> e.register,
                      state |-> e.state,
                      register_type |-> e.register_type,
                      verify_state |-> e.verify_state,
                      verify_register |-> 7 ] : e \in some }

(***************************************************************************)
(* The transport calls of the register switch.  Each returns the new      *)
(* self._available, what the method returns, and the hub call it made.     *)
(***************************************************************************)
HubCall(fn, address, value, res) ==
    [fn |-> fn, address |-> address, value |-> value, result |-> res.kind]

\* ModbusRegisterSwitch._zzz_read_register: Optional[int] is a sequence of
\* at most one word, <<>> being None
zzz_read_register(register_type, register, res) ==
    LET fn == IF register_type = CALL_TYPE_REGISTER_INPUT
              THEN "read_input_registers"
              ELSE "read_holding_registers"
    IN  [ available |-> (res.kind = "ok"),
          ret |-> IF res.kind = "ok" THEN <<res.word>> ELSE <<>>,
          io |-> <<HubCall(fn, register, res.word, res) @@ [count |-> 1]>> ]

\* ModbusRegisterSwitch._read_register: the read at verify_register in the
\* bank of the configured kind; nothing calls it
read_register(res) ==
    LET fn == IF cfg.register_type = CALL_TYPE_REGISTER_INPUT
              THEN "read_input_registers"
              ELSE "read_holding_registers"
    IN  [ available |-> (res.kind = "ok"),
          ret |-> IF res.kind = "ok" THEN <<res.word>> ELSE <<>>,
          io |-> <<HubCall(fn, cfg.verify_register, res.word, res) @@ [count |-> 1]>> ]

\* the number _write_register computes from the command list
CommandWord(value) == IF value[1] = 0 THEN 0 ELSE 2 ^ (value[1] - 1)

\* ModbusRegisterSwitch._write_register, called with a list: only a raised
\* ConnectionException is caught, what the hub returns is not looked at
write_register(value, res) ==
    [ available |-> (res.kind # "ConnectionException"),
      io |-> <<HubCall("write_registers", cfg.register, CommandWord(value), res)>> ]

(***************************************************************************)
(* update().  self is [is_on, available]; the result adds the hub calls    *)
(* made, the exception that left the method and whether the error was      *)
(* logged.                                                                 *)
(***************************************************************************)
Outcome(on, avail, io, raised, logged) ==
    [is_on |-> on, available |-> avail, io |-> io, raised |-> raised,
     logged |-> logged]

\* decode with the OFF pattern taken from the wrong element of _state_off
decode_wrong_index(on, value) ==
    IF value = IntPow2(cfg.state_on[3] - 1) THEN [is_on |-> On, logged |-> FALSE]
    ELSE IF value = IntPow2(cfg.state_off[2] - 1) THEN [is_on |-> Off, logged |-> FALSE]
    ELSE [is_on |-> on, logged |-> TRUE]

\* decode that flips the cached state when the ON pattern is seen
decode_toggle(on, value) ==
    IF value = IntPow2(cfg.state_on[3] - 1)
    THEN [is_on |-> IF on = On THEN Off ELSE On, logged |-> FALSE]
    ELSE IF value = IntPow2(cfg.state_off[3] - 1) THEN [is_on |-> Off, logged |-> FALSE]
    ELSE [is_on |-> on, logged |-> TRUE]

\* the if / elif / elif of update() on the masked value
decode(on, value) ==
    IF value = IntPow2(cfg.state_on[3] - 1) THEN [is_on |-> On, logged |-> FALSE]
    ELSE IF value = IntPow2(cfg.state_off[3] - 1) THEN [is_on |-> Off, logged |-> FALSE]
    ELSE [is_on |-> on, logged |-> TRUE]

\* update that compares the register word without masking it
update_unmasked(self, res) ==
    IF ~cfg.verify_state
    THEN Outcome(self.is_on, self.available, <<>>, "none", FALSE)
    ELSE LET r == zzz_read_register(CALL_TYPE_REGISTER_HOLDING, cfg.state_on[1], res)
         IN  IF r.ret = <<>>
             THEN Outcome(self.is_on, r.available, r.io, "TypeError", FALSE)
             ELSE LET d == decode(self.is_on, r.ret[1])
                  IN  Outcome(d.is_on, r.available, r.io, "none", d.logged)

\* update that forgets the cached state when the read fails
update_forget(self, res) ==
    IF ~cfg.verify_state
    THEN Outcome(self.is_on, self.available, <<>>, "none", FALSE)
    ELSE LET r == zzz_read_register(CALL_TYPE_REGISTER_HOLDING, cfg.state_on[1], res)
         IN  IF r.ret = <<>>
             THEN Outcome(Unknown, r.available, r.io, "TypeError", FALSE)
             ELSE LET value == bitwise_and(r.ret[1], IntPow2(cfg.state_on[2] - 1))
                      d == decode(self.is_on, value)
                  IN  Outcome(d.is_on, r.available, r.io, "none", d.logged)

\* update without the verify_state early return
update_no_guard(self, res) ==
    LET r == zzz_read_register(CALL_TYPE_REGISTER_HOLDING, cfg.state_on[1], res)
    IN  IF r.ret = <<>>
        THEN Outcome(self.is_on, r.available, r.io, "TypeError", FALSE)
        ELSE LET value == bitwise_and(r.ret[1], IntPow2(cfg.state_on[2] - 1))
                 d == decode(self.is_on, value)
             IN  Outcome(d.is_on, r.available, r.io, "none", d.logged)

\* update that reads through _read_register
update_read_register(self, res) ==
    IF ~cfg.verify_state
    THEN Outcome(self.is_on, self.available, <<>>, "none", FALSE)
    ELSE LET r == read_register(res)
         IN  IF r.ret = <<>>
             THEN Outcome(self.is_on, r.available, r.io, "TypeError", FALSE)
             ELSE LET value == bitwise_and(r.ret[1], IntPow2(cfg.state_on[2] - 1))
                      d == decode(self.is_on, value)
                  IN  Outcome(d.is_on, r.available, r.io, "none", d.logged)

\* ModbusRegisterSwitch.update: np.bitwise_and(None, int) raises TypeError
update(self, res) ==
    IF ~cfg.verify_state
    THEN Outcome(self.is_on, self.available, <<>>, "none", FALSE)
    ELSE LET r == zzz_read_register(CALL_TYPE_REGISTER_HOLDING, cfg.state_on[1], res)
         IN  IF r.ret = <<>>
             THEN Outcome(self.is_on, r.available, r.io, "TypeError", FALSE)
             ELSE LET value == bitwise_and(r.ret[1], IntPow2(cfg.state_on[2] - 1))
                      d == decode(self.is_on, value)
                  IN  Outcome(d.is_on, r.available, r.io, "none", d.logged)

\* command that never sets the state directly
command_skip_direct(self, value, target, wres, rres) ==
    LET holding == (cfg.register_type = CALL_TYPE_REGISTER_HOLDING)
        w == IF holding THEN write_register(value, wres)
             ELSE [available |-> self.available, io |-> <<>>]
        s1 == [is_on |-> self.is_on, available |-> w.available]
        u == update(s1, rres)
    IN  [u EXCEPT !.io = w.io \o u.io]

\* command that verifies before it writes
command_read_first(self, value, target, wres, rres) ==
    LET holding == (cfg.register_type = CALL_TYPE_REGISTER_HOLDING)
        u == update(self, rres)
        w == IF holding /\ u.raised = "none" THEN write_register(value, wres)
             ELSE [available |-> u.available, io |-> <<>>]
    IN  [u EXCEPT !.io = u.io \o w.io, !.available = w.available,
                  !.is_on = IF holding /\ ~cfg.verify_state /\ u.raised = "none"
                            THEN target ELSE u.is_on]

\* command that writes whatever the register kind is
command_always_write(self, value, target, wres, rres) ==
    LET w == write_register(value, wres)
        s1 == [ is_on |-> IF ~cfg.verify_state THEN target ELSE self.is_on,
                available |-> w.available ]
        u == update(s1, rres)
    IN  [u EXCEPT !.io = w.io \o u.io]

\* command whose failed write keeps the switch unavailable
command_sticky_failure(self, value, target, wres, rres) ==
    LET holding == (cfg.register_type = CALL_TYPE_REGISTER_HOLDING)
        w == IF holding THEN write_register(value, wres)
             ELSE [available |-> self.available, io |-> <<>>]
        s1 == [ is_on |-> IF holding /\ ~cfg.verify_state THEN target ELSE self.is_on,
                available |-> w.available ]
        u == update(s1, rres)
    IN  [u EXCEPT !.io = w.io \o u.io, !.available = w.available /\ u.available]

\* turn_on / turn_off: the command write, the direct state, then update()
command(self, value, target, wres, rres) ==
    LET holding == (cfg.register_type = CALL_TYPE_REGISTER_HOLDING)
        w == IF holding THEN write_register(value, wres)
             ELSE [available |-> self.available, io |-> <<>>]
        s1 == [ is_on |-> IF holding /\ ~cfg.verify_state THEN target ELSE self.is_on,
                available |-> w.available ]
        u == update(s1, rres)
    IN  [u EXCEPT !.io = w.io \o u.io]

\* ModbusRegisterSwitch.turn_on
turn_on(self, wres, rres) == command(self, cfg.command_on, On, wres, rres)

\* ModbusRegisterSwitch.turn_off
turn_off(self, wres, rres) == command(self, cfg.command_off, Off, wres, rres)

(***************************************************************************)
(* History of the calls.                                                   *)
(***************************************************************************)
Self == [is_on |-> is_on, available |-> available]

Call(op, out) ==
    [ op |-> op, pre_is_on |-> is_on, pre_available |-> available,
      io |-> out.io, raised |-> out.raised, logged |-> out.logged ]

NoCall(op) ==
    [ op |-> op, pre_is_on |-> is_on, pre_available |-> available,
      io |-> <<>>, raised |-> "none", logged |-> FALSE ]

NoStreak == [first |-> "none", firstOk |-> "none", again |-> FALSE]

\* whether the call read the status register successfully
ReadOk(io) == io # <<>> /\ io[Len(io)].fn # "write_registers" /\ io[Len(io)].result = "ok"

\* one more update() call in the run: out is what it returned
Extend(s, out) ==
    [ first |-> IF s.first = "none" THEN out.is_on ELSE s.first,
      firstOk |-> IF s.firstOk = "none" /\ ReadOk(out.io) THEN out.is_on ELSE s.firstOk,
      again |-> s.again \/ (s.firstOk # "none" /\ ReadOk(out.io)) ]

(***************************************************************************)
(* The state machine.                                                      *)
(***************************************************************************)
\* no coil switch is modelled
NoCoil == coil = FALSE /\ prev = <<>>

\* no sensor is modelled
NoSensor == sensor = <<>> /\ device = <<>> /\ slast = <<>>

\* a register switch whose constructor returned
Init ==
    /\ entity = "register"
    /\ entry \in Entries
    /\ cfg = construct(entry).fields
    /\ NoCoil
    /\ NoSensor
    /\ is_on = Unknown
    /\ available = TRUE
    /\ added = FALSE
    /\ statusWord \in Words
    /\ last = NoCall("init")
    /\ lastCmd = "none"
    /\ streak = NoStreak

\* ModbusBaseSwitch.async_added_to_hass
AddedToHass ==
    /\ ~added
    /\ added' = TRUE
    /\ \E state \in {"none", STATE_ON, "off", "unavailable"} :
          is_on' = IF state = "none" THEN is_on
                   ELSE IF state = STATE_ON THEN On ELSE Off
    /\ last' = NoCall("async_added_to_hass")
    /\ UNCHANGED <<cfg, available, statusWord, lastCmd, streak, others>>

\* the device changes the word of its status register
DeviceChange ==
    /\ added
    /\ \E w \in Words \ {statusWord} : statusWord' = w
    /\ last' = NoCall("device")
    /\ streak' = NoStreak
    /\ UNCHANGED <<cfg, is_on, available, added, lastCmd, others>>

\* the host polls the entity
Update ==
    /\ added
    /\ \E rk \in ResultKinds :
          LET out == update(Self, HubResult(rk, statusWord))
          IN  /\ is_on' = out.is_on
              /\ available' = out.available
              /\ last' = Call("update", out)
              /\ streak' = Extend(streak, out)
    /\ UNCHANGED <<cfg, added, statusWord, lastCmd, others>>

\* a command.  The verification read returns the word the device holds when
\* the settle delay is over; what the device did to it before that moment
\* is a DeviceChange before the command.
Command(op, target) ==
    /\ added
    /\ \E wk \in ResultKinds, rk \in ResultKinds :
          LET out == IF target = On
                     THEN turn_on(Self, HubResult(wk, 0), HubResult(rk, statusWord))
                     ELSE turn_off(Self, HubResult(wk, 0), HubResult(rk, statusWord))
          IN  /\ is_on' = out.is_on
              /\ available' = out.available
              /\ last' = Call(op, out)
    /\ lastCmd' = target
    /\ streak' = NoStreak
    /\ UNCHANGED <<cfg, added, statusWord, others>>

TurnOn == Command("turn_on", On)

TurnOff == Command("turn_off", Off)

Next == AddedToHass \/ DeviceChange \/ Update \/ TurnOn \/ TurnOff

Spec == Init /\ [][Next]_vars

(***************************************************************************)
(* The coil switch.  It shares is_on, available, added and last with the   *)
(* register switch (ModbusBaseSwitch); cfg holds its coil address.         *)
(***************************************************************************)
\* the coil entries of the configurations explored
CoilEntries == [coil : {0, 7}]

\* ModbusCoilSwitch.__init__
coil_init(e) == [coil |-> e.coil]

\* a bool as the int it is
BoolInt(b) == IF b THEN 1 ELSE 0

\* what hub.read_coils returns for the device bit b
CoilResult(kind, b) == [kind |-> kind, bits |-> <<b>>]

\* ModbusCoilSwitch._read_coil: bool(result.bits[0] & 1), False on failure
read_coil(c, res) ==
    [ available |-> (res.kind = "ok"),
      ret |-> IF res.kind = "ok"
              THEN bitwise_and(BoolInt(res.bits[1]), 1) # 0
              ELSE FALSE,
      io |-> <<HubCall("read_coils", c, BoolInt(res.bits[1]), res)>> ]

\* ModbusCoilSwitch._write_coil: only a raised ConnectionException is caught
write_coil(c, value, res) ==
    [ available |-> (res.kind # "ConnectionException"),
      io |-> <<HubCall("write_coil", c, BoolInt(value), res)>> ]

\* the bit of the coil after a write: a write the device accepted sets it
Written(value, res) == IF res.kind = "ok" THEN value ELSE coil

\* update that keeps the cached state when the read fails
coil_update_stale(self, res) ==
    LET r == read_coil(cfg.coil, res)
    IN  Outcome(IF res.kind # "ok" THEN self.is_on
                ELSE IF r.ret THEN On ELSE Off,
                r.available, r.io, "none", FALSE)

\* ModbusCoilSwitch.update
coil_update(self, res) ==
    LET r == read_coil(cfg.coil, res)
    IN  Outcome(IF r.ret THEN On ELSE Off, r.available, r.io, "none", FALSE)

\* ModbusCoilSwitch.turn_on
coil_turn_on(self, res) ==
    LET w == write_coil(cfg.coil, TRUE, res)
    IN  Outcome(On, w.available, w.io, "none", FALSE)

\* turn_off that writes True
coil_turn_off_writes_on(self, res) ==
    LET w == write_coil(cfg.coil, TRUE, res)
    IN  Outcome(Off, w.available, w.io, "none", FALSE)

\* turn_off that trusts the write only when it did not raise
coil_turn_off_pessimistic(self, res) ==
    LET w == write_coil(cfg.coil, FALSE, res)
    IN  Outcome(IF w.available THEN Off ELSE self.is_on,
                w.available, w.io, "none", FALSE)

\* ModbusCoilSwitch.turn_off
coil_turn_off(self, res) ==
    LET w == write_coil(cfg.coil, FALSE, res)
    IN  Outcome(Off, w.available, w.io, "none", FALSE)

\* a coil switch whose constructor returned
CoilInit ==
    /\ entity = "coil"
    /\ entry \in CoilEntries
    /\ cfg = coil_init(entry)
    /\ coil \in BOOLEAN
    /\ prev = <<>>
    /\ NoSensor
    /\ is_on = Unknown
    /\ available = TRUE
    /\ added = FALSE
    /\ statusWord = 0
    /\ last = NoCall("init")
    /\ lastCmd = "none"
    /\ streak = NoStreak

\* what the coil switch does not touch
coilOthers == <<entity, entry, cfg, added, statusWord, lastCmd, streak,
                sensor, device, slast>>

\* the device changes the bit of the coil
CoilDeviceChange ==
    /\ added
    /\ coil' = ~coil
    /\ prev' = last
    /\ last' = NoCall("device")
    /\ UNCHANGED <<is_on, available, coilOthers>>

\* the host polls the coil switch
CoilUpdate ==
    /\ added
    /\ \E rk \in ResultKinds :
          LET out == coil_update(Self, CoilResult(rk, coil))
          IN  /\ is_on' = out.is_on
              /\ available' = out.available
              /\ last' = Call("update", out)
    /\ prev' = last
    /\ UNCHANGED <<coil, coilOthers>>

CoilTurnOn ==
    /\ added
    /\ \E wk \in ResultKinds :
          LET out == coil_turn_on(Self, CoilResult(wk, TRUE))
          IN  /\ is_on' = out.is_on
              /\ available' = out.available
              /\ last' = Call("turn_on", out)
              /\ coil' = Written(out.io[1].value = 1, CoilResult(wk, TRUE))
    /\ prev' = last
    /\ UNCHANGED coilOthers

CoilTurnOff ==
    /\ added
    /\ \E wk \in ResultKinds :
          LET out == coil_turn_off(Self, CoilResult(wk, FALSE))
          IN  /\ is_on' = out.is_on
              /\ available' = out.available
              /\ last' = Call("turn_off", out)
              /\ coil' = Written(out.io[1].value = 1, CoilResult(wk, FALSE))
    /\ prev' = last
    /\ UNCHANGED coilOthers

CoilNext == AddedToHass \/ CoilDeviceChange \/ CoilUpdate \/ CoilTurnOn \/ CoilTurnOff

CoilSpec == CoilInit /\ [][CoilNext]_vars

(***************************************************************************)
(* A switch of either class.                                               *)
(***************************************************************************)
SwitchInit == Init \/ CoilInit

SwitchNext ==
    \/ entity = "register" /\ Next
    \/ entity = "coil" /\ CoilNext

SwitchSpec == SwitchInit /\ [][SwitchNext]_vars

(***************************************************************************)
(* Python integers.  An int is a sign and a magnitude of any size; the     *)
(* magnitude is its sequence of 15-bit digits, least significant first,    *)
(* ending in a digit that is not zero (the empty sequence is zero).        *)
(***************************************************************************)
Base == 2 ^ 15

Reverse(s) == [i \in 1 .. Len(s) |-> s[Len(s) + 1 - i]]

RECURSIVE Concat(_)
\* "".join(parts), b"".join(parts)
Concat(parts) ==
    IF parts = <<>> THEN <<>> ELSE Head(parts) \o Concat(Tail(parts))

Zeros(n) == [i \in 1 .. n |-> 0]

RECURSIVE Trim(_)
\* the magnitude without its leading zero digits
Trim(m) ==
    IF m # <<>> /\ m[Len(m)] = 0 THEN Trim(SubSeq(m, 1, Len(m) - 1)) ELSE m

RECURSIVE NatDigits(_)
NatDigits(n) == IF n = 0 THEN <<>> ELSE <<n % Base>> \o NatDigits(n \div Base)

RECURSIVE AddDigits(_, _, _)
\* a + b + c, c the carry
AddDigits(a, b, c) ==
    IF a = <<>> /\ b = <<>> THEN (IF c = 0 THEN <<>> ELSE <<c>>)
    ELSE LET x == IF a = <<>> THEN 0 ELSE Head(a)
             y == IF b = <<>> THEN 0 ELSE Head(b)
             t == x + y + c
         IN  <<t % Base>> \o AddDigits(IF a = <<>> THEN a ELSE Tail(a),
                                       IF b = <<>> THEN b ELSE Tail(b),
                                       t \div Base)

RECURSIVE SubDigits(_, _, _)
\* a - b - c for a >= b + c, c the borrow
SubDigits(a, b, c) ==
    IF a = <<>> THEN <<>>
    ELSE LET y == IF b = <<>> THEN 0 ELSE Head(b)
             d == Head(a) - y - c
         IN  <<(d + Base) % Base>>
                 \o SubDigits(Tail(a), IF b = <<>> THEN b ELSE Tail(b),
                              IF d < 0 THEN 1 ELSE 0)

\* a < b
LessDigits(a, b) ==
    \/ Len(a) < Len(b)
    \/ /\ Len(a) = Len(b)
       /\ \E i \in 1 .. Len(a) :
             /\ a[i] < b[i]
             /\ \A j \in (i + 1) .. Len(a) : a[j] = b[j]

RECURSIVE MulDigit(_, _, _)
\* a * k + c for one digit k, c the carry
MulDigit(a, k, c) ==
    IF a = <<>> THEN (IF c = 0 THEN <<>> ELSE <<c>>)
    ELSE LET t == Head(a) * k + c
         IN  <<t % Base>> \o MulDigit(Tail(a), k, t \div Base)

RECURSIVE MulDigits(_, _)
MulDigits(a, b) ==
    IF a = <<>> \/ b = <<>> THEN <<>>
    ELSE LET m == MulDigits(a, Tail(b))
         IN  Trim(AddDigits(MulDigit(a, Head(b), 0),
                            IF m = <<>> THEN m ELSE <<0>> \o m,
                            0))

\* 2 ^ k
Pow2Digits(k) == Zeros(k \div 15) \o <<2 ^ (k % 15)>>

\* the bit of weight 2 ^ i
Bit(m, i) ==
    IF (i \div 15) + 1 > Len(m) THEN 0
    ELSE (m[(i \div 15) + 1] \div (2 ^ (i % 15))) % 2

\* the number of bits of a magnitude
BitLength(m) ==
    IF m = <<>> THEN 0
    ELSE 15 * (Len(m) - 1)
         + (CHOOSE k \in 1 .. 15 :
               2 ^ (k - 1) <= m[Len(m)] /\ m[Len(m)] < 2 ^ k)

PyInt(neg, mag) == [neg |-> neg /\ mag # <<>>, mag |-> mag]

\* the int written n in the configuration
int_lit(n) == PyInt(n < 0, NatDigits(IF n < 0 THEN 0 - n ELSE n))

\* x + y
int_add(x, y) ==
    IF x.neg = y.neg THEN PyInt(x.neg, AddDigits(x.mag, y.mag, 0))
    ELSE IF LessDigits(x.mag, y.mag)
         THEN PyInt(y.neg, Trim(SubDigits(y.mag, x.mag, 0)))
         ELSE PyInt(x.neg, Trim(SubDigits(x.mag, y.mag, 0)))

\* x * y
int_mul(x, y) == PyInt(x.neg # y.neg, MulDigits(x.mag, y.mag))

RECURSIVE quot(_, _, _)
\* long division of the digits m, most significant first, by d: quotient
quot(m, d, r) ==
    IF m = <<>> THEN <<>>
    ELSE <<(r * Base + Head(m)) \div d>>
             \o quot(Tail(m), d, (r * Base + Head(m)) % d)

RECURSIVE rem(_, _, _)
\* long division: remainder
rem(m, d, r) ==
    IF m = <<>> THEN r ELSE rem(Tail(m), d, (r * Base + Head(m)) % d)

RECURSIVE str_digits(_)
\* the decimal digits of a magnitude, four at a time, none for zero
str_digits(m) ==
    IF m = <<>> THEN <<>>
    ELSE LET q == Trim(Reverse(quot(Reverse(m), 10000, 0)))
             r == rem(Reverse(m), 10000, 0)
         IN  IF q = <<>> THEN str_nat(r)
             ELSE str_digits(q)
                      \o << Digits[(r \div 1000) + 1],
                            Digits[((r \div 100) % 10) + 1],
                            Digits[((r \div 10) % 10) + 1],
                            Digits[(r % 10) + 1] >>

\* str(x) for an int
str(x) ==
    (IF x.neg THEN <<"-">> ELSE <<>>)
        \o (IF x.mag = <<>> THEN <<"0">> ELSE str_digits(x.mag))

\* float(x) for an int: the nearest double, ties to even; a double keeps
\* 53 significant bits
float(x) ==
    LET drop == BitLength(x.mag) - 53
    IN  IF drop <= 0 THEN x
        ELSE LET low == { i \in 0 .. (drop - 1) : Bit(x.mag, i) = 1 }
                 floor == IF low = {} THEN x.mag
                          ELSE Trim(SubDigits(x.mag,
                                   [i \in 1 .. ((drop - 1) \div 15) + 1 |->
                                       x.mag[i] % (IF i = ((drop - 1) \div 15) + 1
                                                   THEN 2 ^ (((drop - 1) % 15) + 1)
                                                   ELSE Base)],
                                   0))
                 half == (drop - 1) \in low
                 sticky == low \ {drop - 1} # {}
                 up == half /\ (sticky \/ Bit(x.mag, drop) = 1)
             IN  PyInt(x.neg,
                       IF up THEN AddDigits(floor, Pow2Digits(drop), 0)
                       ELSE floor)

\* f"{x:.{precision}f}" for a double x without fractional part
format_f(x, precision) ==
    str(x) \o (IF precision = 0 THEN <<>>
               ELSE <<".">> \o [i \in 1 .. precision |-> "0"])

RECURSIVE format_b(_, _)
\* format(n, "0<width>b") for n < 2 ^ width
format_b(n, width) ==
    IF width = 0 THEN <<>>
    ELSE format_b(n \div 2, width - 1) \o <<Digits[(n % 2) + 1]>>

\* word.to_bytes(2, byteorder="big")
to_bytes(word) == <<word \div 256, word % 256>>

RECURSIVE from_bytes(_)
\* the magnitude big-endian bytes denote
from_bytes(bs) ==
    IF bs = <<>> THEN <<>>
    ELSE AddDigits(MulDigit(from_bytes(SubSeq(bs, 1, Len(bs) - 1)), 256, 0),
                   NatDigits(bs[Len(bs)]), 0)

\* struct.calcsize of a big-endian format of one integer
calcsize(structure) ==
    CASE structure[2] \in {"h", "H"} -> 2
      [] structure[2] \in {"i", "I"} -> 4
      [] structure[2] \in {"q", "Q"} -> 8

\* struct.unpack(structure, byte_string)[0] for such a format: lower case
\* is two's complement, upper case unsigned
unpack(structure, byte_string) ==
    LET u == from_bytes(byte_string)
    IN  IF structure[2] \in {"h", "i", "q"} /\ byte_string[1] >= 128
        THEN PyInt(TRUE, Trim(SubDigits(Pow2Digits(8 * Len(byte_string)), u, 0)))
        ELSE PyInt(FALSE, u)

(***************************************************************************)
(* The register sensor, for the int and uint data types.                   *)
(***************************************************************************)
DATA_TYPE_INT == "int"

DATA_TYPE_UINT == "uint"

\* the struct format of a data type and a count of words
DEFAULT_STRUCT_FORMAT ==
    [t \in {DATA_TYPE_INT, DATA_TYPE_UINT} |->
        [c \in {1, 2, 4} |->
            IF t = DATA_TYPE_INT
            THEN (IF c = 1 THEN "h" ELSE IF c = 2 THEN "i" ELSE "q")
            ELSE (IF c = 1 THEN "H" ELSE IF c = 2 THEN "I" ELSE "Q")]]

\* the largest precision of the entries explored
MaxPrecision == 1

\* scale, offset and precision of the entries explored
NumericSamples ==
    { [scale |-> 1, offset |-> 0, precision |-> 0],
      [scale |-> 2, offset |-> 5, precision |-> 0],
      [scale |-> 2, offset |-> 5, precision |-> MaxPrecision],
      [scale |-> 0 - 3, offset |-> 0 - 7, precision |-> MaxPrecision] }

\* the bit indexes of the entries explored for a count of words: none,
\* the lowest, the highest, and one past the highest
BitSamples(count) == { <<>>, <<1>>, <<16 * count>>, <<16 * count + 1>> }

\* the register entries of the configurations explored
SensorEntries ==
    UNION { { [register |-> 0, register_type |-> rt, count |-> c,
               data_type |-> dt, reverse_order |-> ro, scale |-> n.scale,
               offset |-> n.offset, precision |-> n.precision, bit |-> b] :
                 rt \in {CALL_TYPE_REGISTER_HOLDING, CALL_TYPE_REGISTER_INPUT},
                 dt \in {DATA_TYPE_INT, DATA_TYPE_UINT},
                 ro \in BOOLEAN,
                 n \in NumericSamples,
                 b \in BitSamples(c) } : c \in {1, 2, 4} }

\* ModbusRegisterSensor.__init__
sensor_init(register, structure) ==
    [ register |-> register.register,
      register_type |-> register.register_type,
      count |-> register.count,
      reverse_order |-> register.reverse_order,
      scale |-> register.scale,
      offset |-> register.offset,
      precision |-> register.precision,
      structure |-> structure,
      data_type |-> register.data_type,
      bit |-> register.bit ]

\* setup_platform for one entry: the sensor it constructs, none when the
\* entry is skipped
setup_platform(register) ==
    IF \/ register.data_type \notin DOMAIN DEFAULT_STRUCT_FORMAT
       \/ register.count \notin DOMAIN DEFAULT_STRUCT_FORMAT[register.data_type]
    THEN <<>>
    ELSE LET structure ==
                 <<">", DEFAULT_STRUCT_FORMAT[register.data_type][register.count]>>
         IN  IF register.count * 2 # calcsize(structure) THEN <<>>
             ELSE <<sensor_init(register, structure)>>


\* "if self._bit": a bit index that is configured and not zero
Truthy(bit) == bit # <<>> /\ bit[1] # 0

\* update that does not reverse the words
sensor_decode_no_reverse(c, words) ==
    LET byte_string == Concat([i \in 1 .. Len(words) |-> to_bytes(words[i])])
        val == int_add(int_mul(int_lit(c.scale), unpack(c.structure, byte_string)),
                       int_lit(c.offset))
    IN  IF Truthy(c.bit)
        THEN LET bytes_as_bits ==
                     Concat([i \in 1 .. Len(byte_string) |->
                                format_b(byte_string[i], 8)])
                 position == Len(bytes_as_bits) - c.bit[1]
             IN  [raised |-> "none",
                  value |-> <<bytes_as_bits[(IF position < 0
                                             THEN position + Len(bytes_as_bits)
                                             ELSE position) + 1]>>]
        ELSE [raised |-> "none",
              value |-> IF c.precision = 0 THEN str(val)
                        ELSE format_f(float(val), c.precision)]

\* update that counts the bit index from the first character
sensor_decode_bit_from_msb(c, words) ==
    LET registers == IF c.reverse_order THEN Reverse(words) ELSE words
        byte_string == Concat([i \in 1 .. Len(registers) |-> to_bytes(registers[i])])
        val == int_add(int_mul(int_lit(c.scale), unpack(c.structure, byte_string)),
                       int_lit(c.offset))
    IN  IF Truthy(c.bit)
        THEN LET bytes_as_bits ==
                     Concat([i \in 1 .. Len(byte_string) |->
                                format_b(byte_string[i], 8)])
             IN  [raised |-> "none",
                  value |-> <<bytes_as_bits[((c.bit[1] - 1) % Len(bytes_as_bits)) + 1]>>]
        ELSE [raised |-> "none",
              value |-> IF c.precision = 0 THEN str(val)
                        ELSE format_f(float(val), c.precision)]

\* update that adds no offset
sensor_decode_no_offset(c, words) ==
    LET registers == IF c.reverse_order THEN Reverse(words) ELSE words
        byte_string == Concat([i \in 1 .. Len(registers) |-> to_bytes(registers[i])])
        val == int_mul(int_lit(c.scale), unpack(c.structure, byte_string))
    IN  IF Truthy(c.bit)
        THEN LET bytes_as_bits ==
                     Concat([i \in 1 .. Len(byte_string) |->
                                format_b(byte_string[i], 8)])
                 position == Len(bytes_as_bits) - c.bit[1]
             IN  [raised |-> "none",
                  value |-> <<bytes_as_bits[(IF position < 0
                                             THEN position + Len(bytes_as_bits)
                                             ELSE position) + 1]>>]
        ELSE [raised |-> "none",
              value |-> IF c.precision = 0 THEN str(val)
                        ELSE format_f(float(val), c.precision)]

\* ModbusRegisterSensor.update from "registers = result.registers" on: the
\* str the words decode to, or the exception the decoding raises
sensor_decode(c, words) ==
    LET registers == IF c.reverse_order THEN Reverse(words) ELSE words
        byte_string == Concat([i \in 1 .. Len(registers) |-> to_bytes(registers[i])])
    IN  IF Truthy(c.bit)
        THEN LET bytes_as_bits ==
                     Concat([i \in 1 .. Len(byte_string) |->
                                format_b(byte_string[i], 8)])
                 position == Len(bytes_as_bits) - c.bit[1]
             IN  IF position < 0 - Len(bytes_as_bits)
                 THEN [raised |-> "IndexError", value |-> <<>>]
                 ELSE [raised |-> "none",
                       value |-> <<bytes_as_bits[(IF position < 0
                                                  THEN position + Len(bytes_as_bits)
                                                  ELSE position) + 1]>>]
        ELSE IF Len(byte_string) # calcsize(c.structure)
        THEN [raised |-> "struct.error", value |-> <<>>]
        ELSE LET val == int_add(int_mul(int_lit(c.scale),
                                        unpack(c.structure, byte_string)),
                                int_lit(c.offset))
             IN  [raised |-> "none",
                  value |-> IF c.precision = 0 THEN str(val)
                            ELSE format_f(float(val), c.precision)]

\* what the hub returns for a read of the words
RegistersResult(kind, words) ==
    [kind |-> kind, registers |-> IF kind = "ok" THEN words ELSE <<>>]

\* what a call of the sensor leaves: value is None (<<>>) or <<the str>>
SensorOutcome(value, avail, raised, io) ==
    [value |-> value, available |-> avail, raised |-> raised, io |-> io]

\* update that clears the value when the read fails
sensor_update_clears(self, res) ==
    LET fn == IF cfg.register_type = CALL_TYPE_REGISTER_INPUT
              THEN "read_input_registers" ELSE "read_holding_registers"
        io == <<HubCall(fn, cfg.register, cfg.count, res)>>
        d == sensor_decode(cfg, res.registers)
    IN  IF res.kind # "ok" THEN SensorOutcome(<<>>, FALSE, "none", io)
        ELSE SensorOutcome(<<d.value>>, TRUE, "none", io)

\* ModbusRegisterSensor.update
sensor_update(self, res) ==
    LET fn == IF cfg.register_type = CALL_TYPE_REGISTER_INPUT
              THEN "read_input_registers" ELSE "read_holding_registers"
        io == <<HubCall(fn, cfg.register, cfg.count, res)>>
        d == sensor_decode(cfg, res.registers)
    IN  IF res.kind # "ok" THEN SensorOutcome(self.value, FALSE, "none", io)
        ELSE IF d.raised # "none"
        THEN SensorOutcome(self.value, self.available, d.raised, io)
        ELSE SensorOutcome(<<d.value>>, TRUE, "none", io)

\* the record of the last call of the sensor
SensorCall(op, out) ==
    [ op |-> op, pre_value |-> sensor.value,
      pre_available |-> sensor.available,
      raised |-> out.raised, io |-> out.io ]

\* the words the device holds, for a count of words
RegisterSamples(count) ==
    IF count = 1 THEN { <<5>>, <<100>>, <<65535>> }
    ELSE IF count = 2 THEN { <<0, 100>>, <<32768, 5>>, <<65535, 65534>> }
    ELSE { <<0, 0, 0, 100>>, <<32, 0, 0, 1>>, <<65535, 65535, 65535, 65535>> }

\* a sensor setup_platform constructed
SensorInit ==
    /\ entity = "sensor"
    /\ entry \in SensorEntries
    /\ setup_platform(entry) # <<>>
    /\ cfg = setup_platform(entry)[1]
    /\ sensor = [value |-> <<>>, available |-> TRUE]
    /\ device \in RegisterSamples(cfg.count)
    /\ slast = [op |-> "init", pre_value |-> <<>>, pre_available |-> TRUE,
                raised |-> "none", io |-> <<>>]
    /\ NoCoil
    /\ is_on = Unknown
    /\ available = TRUE
    /\ added = FALSE
    /\ statusWord = 0
    /\ last = NoCall("init")
    /\ lastCmd = "none"
    /\ streak = NoStreak

\* what the sensor does not touch
sensorOthers == <<entity, entry, cfg, is_on, available, statusWord, last,
                  lastCmd, streak, coil, prev>>

\* ModbusRegisterSensor.async_added_to_hass: the restored state, if any,
\* becomes the value
SensorAddedToHass ==
    /\ ~added
    /\ added' = TRUE
    /\ \E state \in {<<>>, <<<<"7">>>>} :
          sensor' = [sensor EXCEPT !.value = IF state = <<>> THEN @ ELSE state]
    /\ slast' = SensorCall("async_added_to_hass",
                           SensorOutcome(<<>>, TRUE, "none", <<>>))
    /\ UNCHANGED <<device, sensorOthers>>

\* the device changes its words
SensorDeviceChange ==
    /\ added
    /\ device' \in RegisterSamples(cfg.count) \ {device}
    /\ slast' = SensorCall("device", SensorOutcome(<<>>, TRUE, "none", <<>>))
    /\ UNCHANGED <<sensor, added, sensorOthers>>

\* the host polls the sensor
SensorUpdate ==
    /\ added
    /\ \E rk \in ResultKinds :
          LET out == sensor_update(sensor, RegistersResult(rk, device))
          IN  /\ sensor' = [value |-> out.value, available |-> out.available]
              /\ slast' = SensorCall("update", out)
    /\ UNCHANGED <<device, added, sensorOthers>>

SensorNext == SensorAddedToHass \/ SensorDeviceChange \/ SensorUpdate

SensorSpec == SensorInit /\ [][SensorNext]_vars

(***************************************************************************)
(* Construction from any entry, malformed tokens included: the constructor *)
(* raises and there is no instance to call, or the switch lives as above.  *)
(***************************************************************************)
\* a register switch constructed from an entry with or without the optional
\* verify_register
VerifyInit ==
    /\ entity = "register"
    /\ entry \in VerifyEntries
    /\ cfg = construct(entry).fields
    /\ NoCoil
    /\ NoSensor
    /\ is_on = Unknown
    /\ available = TRUE
    /\ added = FALSE
    /\ statusWord \in Words
    /\ last = NoCall("init")
    /\ lastCmd = "none"
    /\ streak = NoStreak

VerifySpec == VerifyInit /\ [][Next]_vars

ConstructInit ==
    /\ entry \in Entries \cup BadEntries
    /\ entity = IF construct(entry).raised = "none" THEN "register" ELSE "none"
    /\ cfg = construct(entry).fields
    /\ NoCoil
    /\ NoSensor
    /\ is_on = Unknown
    /\ available = TRUE
    /\ added = FALSE
    /\ statusWord \in Words
    /\ last = [NoCall("init") EXCEPT !.raised = construct(entry).raised]
    /\ lastCmd = "none"
    /\ streak = NoStreak

ConstructNext == entity = "register" /\ Next

ConstructSpec == ConstructInit /\ [][ConstructNext]_vars

(***************************************************************************)
(* Vocabulary of the properties.                                           *)
(***************************************************************************)
Commands == {"turn_on", "turn_off"}

Holding == cfg.register_type = CALL_TYPE_REGISTER_HOLDING

\* the last hub call of the last call on the entity
LastIo == last.io[Len(last.io)]

\* the last call read the status register and got a word
DidRead == ReadOk(last.io)

\* the last call tried to read the status register and the read failed
ReadFailed ==
    /\ last.io # <<>>
    /\ LastIo.fn # "write_registers"
    /\ LastIo.result # "ok"

\* the ON mask 2^(bit-1) of the status bit position
OnMask == 2 ^ (cfg.bit_read - 1)

\* the state a word stands for: On when its status bit is set
Shown(w) == IF (w \div OnMask) % 2 = 1 THEN On ELSE Off

TypeOK ==
    /\ is_on \in {Unknown, On, Off}
    /\ available \in BOOLEAN
    /\ statusWord \in Words
    /\ lastCmd \in {"none", On, Off}

(***************************************************************************)
(* C1.  update() with verification on, a read that succeeds and a word     *)
(* that is neither the ON mask nor 0.                                      *)
(***************************************************************************)
C1_Case ==
    /\ cfg.verify_state
    /\ last.op = "update"
    /\ DidRead
    /\ LastIo.value \notin {OnMask, 0}

\* C1 as stated: such an update() leaves is_on as it was before the call and
\* emits the diagnostic.
C1_Original == C1_Case => (is_on = last.pre_is_on /\ last.logged)

\* C1 amended: such an update() sets is_on to On when the status bit of the
\* word is set and to Off when it is clear, whatever is_on was, and emits no
\* diagnostic.
C1_Masked ==
    C1_Case => (is_on = Shown(LastIo.value) /\ ~last.logged /\ last.raised = "none")

C1_Witness ==
    /\ C1_Case
    /\ last.pre_is_on = Off
    /\ is_on = On

(***************************************************************************)
(* C2.  update() with verification on and a read that fails.               *)
(***************************************************************************)
\* C2: when the verification read fails, update() returns normally with
\* available = false and is_on unchanged.
C2_NeverRaises ==
    (cfg.verify_state /\ last.op = "update" /\ ReadFailed)
        => (last.raised = "none" /\ ~available /\ is_on = last.pre_is_on)

(***************************************************************************)
(* C3.  The two recognised words.                                          *)
(***************************************************************************)
\* C3: with verification on, an update() whose read returns the word
\* 2^(bit-1) sets is_on to On and one whose read returns 0 sets it to Off,
\* whatever is_on was.
C3_OnOff ==
    (cfg.verify_state /\ last.op = "update" /\ DidRead)
        => /\ (LastIo.value = OnMask => is_on = On)
           /\ (LastIo.value = 0 => is_on = Off)

C3_Witness ==
    /\ cfg.verify_state
    /\ last.op = "update"
    /\ DidRead
    /\ \/ (LastIo.value = OnMask /\ last.pre_is_on = Off /\ is_on = On)
       \/ (LastIo.value = 0 /\ last.pre_is_on = On /\ is_on = Off)

(***************************************************************************)
(* C4.  The word turn_off writes.                                          *)
(***************************************************************************)
\* C4: turn_off writes to the command register a word that differs from the
\* word turn_on writes for the same switch.
C4_OffWordDiffers ==
    (last.op = "turn_off" /\ last.io # <<>> /\ last.io[1].fn = "write_registers")
        => /\ last.io[1].address = cfg.register
           /\ last.io[1].value # CommandWord(cfg.command_on)

(***************************************************************************)
(* C5.  Commands without verification.                                     *)
(***************************************************************************)
C5_Case == ~cfg.verify_state /\ last.op \in Commands

Commanded == IF last.op = "turn_on" THEN On ELSE Off

\* C5 as stated: with verify_state = false, turn_on() ends with is_on = On
\* and turn_off() with is_on = Off, for every register kind.
C5_Original == C5_Case => is_on = Commanded

\* C5 amended: with verify_state = false and register kind holding, the
\* command writes its word to the command register and ends with is_on
\* equal to the commanded state, whatever is_on was; with kind input it
\* writes nothing and leaves is_on as it was.
C5_HoldingDirect ==
    C5_Case =>
        IF Holding
        THEN /\ Len(last.io) = 1
             /\ last.io[1].fn = "write_registers"
             /\ last.io[1].address = cfg.register
             /\ is_on = Commanded
        ELSE /\ last.io = <<>>
             /\ is_on = last.pre_is_on

C5_Witness ==
    /\ C5_Case
    /\ Holding
    /\ last.op = "turn_on"
    /\ last.pre_is_on = Off
    /\ is_on = On

(***************************************************************************)
(* C6.  Commands with verification.                                        *)
(***************************************************************************)
C6_Case == cfg.verify_state /\ last.op \in Commands

\* C6: with verification on, a command makes its hub calls in the order
\* write, read (one read, the last call, after the write of a holding
\* switch has returned), never sets is_on to the commanded state itself,
\* and returns with is_on as decoded from the word that read returned; when
\* the read fails is_on is what it was before the command.
C6_WriteThenVerify ==
    C6_Case =>
        /\ IF Holding
           THEN /\ Len(last.io) = 2
                /\ last.io[1].fn = "write_registers"
                /\ last.io[2].fn = "read_holding_registers"
           ELSE /\ Len(last.io) = 1
                /\ last.io[1].fn = "read_holding_registers"
        /\ IF DidRead
           THEN last.raised = "none" /\ is_on = Shown(LastIo.value)
           ELSE last.raised # "none" /\ is_on = last.pre_is_on

C6_Witness ==
    /\ C6_Case
    /\ Holding
    /\ last.op = "turn_on"
    /\ last.io[1].result = "ok"
    /\ DidRead
    /\ last.pre_is_on = On
    /\ is_on = Off

(***************************************************************************)
(* C7.  Availability after a transaction.                                  *)
(***************************************************************************)
\* C7: when the last transport transaction of an operation fails (a raised
\* ConnectionException or a returned exception response) the operation ends
\* with available = false, and when it succeeds with available = true.
C7_AvailabilityFollowsTransport ==
    (last.op \in Commands \cup {"update"} /\ last.io # <<>>)
        => (available <=> LastIo.result = "ok")

(***************************************************************************)
(* C8.  The cached state never returns to Unknown.                         *)
(***************************************************************************)
\* C8: once is_on is On or Off, no step (restore, command, update, transport
\* failure, unrecognised word) makes it Unknown again.
C8_NeverUnknownAgain == [][is_on # Unknown => is_on' # Unknown]_vars

C8_Witness ==
    /\ last.op \in Commands \cup {"update"}
    /\ ReadFailed
    /\ last.pre_is_on # Unknown
    /\ is_on = last.pre_is_on

(***************************************************************************)
(* C9.  Repeated update() over an unchanged status word.                   *)
(***************************************************************************)
\* C9 as stated: over consecutive update() calls with the status word
\* unchanged, is_on after the first call equals is_on after every later one.
C9_Original == streak.first # "none" => (last.op = "update" => is_on = streak.first)

\* C9 amended: over consecutive update() calls with the status word
\* unchanged, is_on after the first call whose read succeeds equals is_on
\* after every later one; a call that reads nothing or whose read fails
\* leaves is_on as it was.
C9_Idempotent ==
    /\ (streak.firstOk # "none" /\ last.op = "update") => is_on = streak.firstOk
    /\ (last.op = "update" /\ ~DidRead) => is_on = last.pre_is_on

C9_Witness ==
    /\ last.op = "update"
    /\ DidRead
    /\ streak.again
    /\ streak.first # streak.firstOk
    /\ is_on = streak.firstOk

(***************************************************************************)
(* C10.  update() without verification.                                    *)
(***************************************************************************)
\* update() did nothing: no hub call, is_on and available as before
C10_Frame ==
    last.op = "update"
        => /\ last.io = <<>>
           /\ is_on = last.pre_is_on
           /\ available = last.pre_available
           /\ last.raised = "none"

\* C10 as stated: with verify_state = false update() is a no-op, and is_on
\* always equals the last commanded action.
C10_Original ==
    ~cfg.verify_state => (C10_Frame /\ (lastCmd # "none" => is_on = lastCmd))

\* C10 amended: with verify_state = false update() is a no-op; is_on equals
\* the last commanded action when the register kind is holding, and with
\* kind input no command or update changes is_on.
C10_NoOp ==
    ~cfg.verify_state =>
        /\ C10_Frame
        /\ (Holding /\ lastCmd # "none") => is_on = lastCmd
        /\ (~Holding /\ last.op \in Commands) => is_on = last.pre_is_on

C10_Witness ==
    /\ ~cfg.verify_state
    /\ Holding
    /\ last.op = "update"
    /\ lastCmd = Off
    /\ is_on = Off
    /\ ~available

(***************************************************************************)
(* C14.  Malformed tokens.                                                 *)
(***************************************************************************)
\* the text is %, one or more capital letters, one or more digits, a dot
\* and one or more digits
WellFormed(t) ==
    \E a \in 2 .. Len(t), d \in 4 .. Len(t) :
        /\ t[1] = "%"
        /\ a + 1 < d
        /\ d < Len(t)
        /\ \A i \in 2 .. a : t[i] \in Upper
        /\ \A i \in (a + 1) .. (d - 1) : t[i] \in DigitSet
        /\ t[d] = "."
        /\ \A i \in (d + 1) .. Len(t) : t[i] \in DigitSet

Malformed == ~WellFormed(entry.register) \/ ~WellFormed(entry.state)

\* C14: when the command token or the state token does not match
\* %<LETTERS><digits>.<digits> the constructor raises, there is no switch,
\* no call was ever made on it and no transport call either; when both match
\* the switch is constructed.
C14_FailsAtConstruction ==
    IF Malformed
    THEN /\ entity = "none"
         /\ last.op = "init"
         /\ last.raised = "ValueError"
         /\ last.io = <<>>
         /\ ~added
    ELSE entity = "register" /\ last.raised # "ValueError"

C14_Witness ==
    /\ entry.register = <<"%", "M", "X", "4", "0">>
    /\ WellFormed(entry.state)
    /\ entity = "none"
    /\ last.raised = "ValueError"

(***************************************************************************)
(* C18.  Addresses and bits.                                               *)
(***************************************************************************)
\* the command token and the state token the entry was written from
CmdToken == CHOOSE t \in CommandTokens : TokenText(t) = entry.register

StToken == CHOOSE t \in StateTokens : TokenText(t) = entry.state

\* C18: for a command token with register index n and bit literal b every
\* write goes to address n-1 with the word 2^b (bit position b+1, never 0);
\* for a state token with index m and bit literal c every read is at m+200
\* for %QX and at m otherwise, and the state decoded is bit c of the word.
C18_Addresses ==
    /\ cfg.bit_position = CmdToken.bit + 1
    /\ \A i \in 1 .. Len(last.io) :
          IF last.io[i].fn = "write_registers"
          THEN /\ last.io[i].address = CmdToken.index - 1
               /\ last.io[i].value = 2 ^ CmdToken.bit
               /\ last.io[i].value # 0
          ELSE last.io[i].address =
                   IF StToken.area = QX THEN StToken.index + 200 ELSE StToken.index
    /\ DidRead => (is_on = On <=> (LastIo.value \div (2 ^ StToken.bit)) % 2 = 1)

C18_Witness ==
    /\ last.op = "turn_on"
    /\ Len(last.io) = 2
    /\ CmdToken = Token(MX, 2, 1)
    /\ last.io[1].address = 1
    /\ last.io[1].value = 2
    /\ StToken = Token(QX, 1, 2)
    /\ last.io[2].address = 201
    /\ last.io[2].result = "ok"
    /\ last.io[2].value = 4
    /\ is_on = On

(***************************************************************************)
(* C19.  An input-kind register switch.                                    *)
(***************************************************************************)
C19_Case == ~Holding /\ last.op \in Commands

\* C19: a register switch of kind input issues no write in turn_on or
\* turn_off; with verify_state = false the command does no hub call at all
\* and leaves is_on and available as they were, with verification on its
\* only hub call is the verification read.
C19_InputNeverWrites ==
    C19_Case =>
        /\ \A i \in 1 .. Len(last.io) : last.io[i].fn # "write_registers"
        /\ IF cfg.verify_state
           THEN Len(last.io) = 1
           ELSE /\ last.io = <<>>
                /\ is_on = last.pre_is_on
                /\ available = last.pre_available
                /\ last.raised = "none"

C19_Witness ==
    /\ C19_Case
    /\ ~cfg.verify_state
    /\ last.op = "turn_on"
    /\ last.pre_is_on = Off
    /\ is_on = Off


(***************************************************************************)
(* C12.  A failed coil read.                                               *)
(***************************************************************************)
C12_Case ==
    /\ entity = "coil"
    /\ last.op = "update"
    /\ LastIo.result # "ok"

\* C12: when the coil read of update() fails, the call returns without
\* raising, available is false and is_on is Off, whatever is_on was before;
\* exactly one read of the configured coil was made.
C12_ReadFailureIsOff ==
    C12_Case =>
        /\ last.raised = "none"
        /\ ~available
        /\ is_on = Off
        /\ Len(last.io) = 1
        /\ LastIo.fn = "read_coils"
        /\ LastIo.address = cfg.coil

C12_Witness ==
    /\ C12_Case
    /\ LastIo.result = "ConnectionException"
    /\ last.pre_is_on = On
    /\ last.pre_available
    /\ coil
    /\ is_on = Off

(***************************************************************************)
(* C13.  Coil write followed by a coil read.                               *)
(***************************************************************************)
C13_Case ==
    /\ entity = "coil"
    /\ last.op = "update"
    /\ LastIo.result = "ok"
    /\ prev # <<>>
    /\ prev.op \in Commands
    /\ prev.io[1].result = "ok"

\* C13: when turn_on() or turn_off() whose write succeeded is directly
\* followed by an update() whose read succeeds, is_on is On after turn_on
\* and Off after turn_off, available is true, and the device bit is the one
\* written.
C13_RoundTrip ==
    C13_Case =>
        /\ is_on = (IF prev.op = "turn_on" THEN On ELSE Off)
        /\ coil = (prev.op = "turn_on")
        /\ available

C13_Witness ==
    /\ C13_Case
    /\ prev.op = "turn_off"
    /\ prev.pre_is_on = On
    /\ is_on = Off
    /\ available

(***************************************************************************)
(* C20.  Commands whose write fails, without verification.                 *)
(***************************************************************************)
C20_Case ==
    /\ last.op \in Commands
    /\ \/ entity = "coil"
       \/ entity = "register" /\ Holding /\ ~cfg.verify_state
    /\ last.io[1].result = "ConnectionException"

\* C20: for a coil switch, and for a holding-register switch with
\* verify_state = false, a turn_on() or turn_off() whose write raises a
\* connectivity exception returns without raising, with is_on equal to the
\* commanded state and available false, after that one write and no other
\* transport call.
C20_Optimistic ==
    C20_Case =>
        /\ last.raised = "none"
        /\ is_on = Commanded
        /\ ~available
        /\ Len(last.io) = 1
        /\ last.io[1].fn \in {"write_coil", "write_registers"}

\* a coil switch shown on while the bit of the device is off
C20_Witness ==
    /\ C20_Case
    /\ entity = "coil"
    /\ last.op = "turn_on"
    /\ last.pre_is_on = Off
    /\ is_on = On
    /\ ~coil

\* the same for a holding-register switch commanded off while shown on
C20_RegisterWitness ==
    /\ C20_Case
    /\ entity = "register"
    /\ last.op = "turn_off"
    /\ last.pre_is_on = On
    /\ is_on = Off


(***************************************************************************)
(* The register sensor: vocabulary of its properties.                      *)
(***************************************************************************)
SensorRead == entity = "sensor" /\ slast.op = "update"

SensorReadOk == SensorRead /\ slast.io[1].result = "ok"

\* the words in the order the flag asks for
Ordered == IF cfg.reverse_order THEN Reverse(device) ELSE device

RECURSIVE WordsValue(_)
\* the unsigned integer that words denote, the first word the most
\* significant
WordsValue(ws) ==
    IF ws = <<>> THEN int_lit(0)
    ELSE int_add(int_mul(WordsValue(SubSeq(ws, 1, Len(ws) - 1)), int_lit(65536)),
                 int_lit(ws[Len(ws)]))

\* the reading of the ordered words: two's complement for int, unsigned
\* for uint
Reading ==
    LET u == WordsValue(Ordered)
    IN  IF /\ cfg.data_type = DATA_TYPE_INT
           /\ ~LessDigits(u.mag, Pow2Digits(16 * cfg.count - 1))
        THEN int_add(u, PyInt(TRUE, Pow2Digits(16 * cfg.count)))
        ELSE u

\* scale * v + offset
Number == int_add(int_mul(int_lit(cfg.scale), Reading), int_lit(cfg.offset))

\* the integer n in decimal, followed for p >= 1 by a point and p zeros
Printed(n, p) ==
    str(n) \o (IF p = 0 THEN <<>> ELSE <<".">> \o [i \in 1 .. p |-> "0"])

(***************************************************************************)
(* C11.  The value of the sensor when the read fails.                      *)
(***************************************************************************)
\* C11: when the read of update() fails, by a raised connectivity
\* exception or by a returned exception response, update() returns without
\* raising, available is false and the value is the one held before the
\* call; when the read succeeds and the decoding does not raise, available
\* is true and the value is what the words read decode to.
C11_StaleValue ==
    SensorRead =>
        IF slast.io[1].result # "ok"
        THEN /\ slast.raised = "none"
             /\ ~sensor.available
             /\ sensor.value = slast.pre_value
        ELSE slast.raised = "none" =>
                /\ sensor.available
                /\ sensor.value = <<sensor_decode(cfg, device).value>>

\* a failed read after a successful one of other words: the old value stays
C11_Witness ==
    /\ SensorRead
    /\ slast.io[1].result = "ExceptionResponse"
    /\ slast.pre_available
    /\ slast.pre_value # <<>>
    /\ slast.pre_value # <<sensor_decode(cfg, device).value>>
    /\ sensor.value = slast.pre_value
    /\ ~Truthy(cfg.bit)

(***************************************************************************)
(* C15.  Bit extraction.                                                   *)
(***************************************************************************)
C15_Case ==
    /\ SensorReadOk
    /\ cfg.bit # <<>>
    /\ 1 <= cfg.bit[1]
    /\ cfg.bit[1] <= 16 * cfg.count

\* C15: with a bit index b, 1 <= b <= 16 * count, a successful update()
\* sets the value to "1" when the bit of weight 2 ^ (b - 1) of the unsigned
\* integer formed by the ordered words is set and to "0" otherwise,
\* whatever data type, scale, offset and precision are.
C15_BitExtraction ==
    C15_Case =>
        /\ slast.raised = "none"
        /\ sensor.value = << <<Digits[Bit(WordsValue(Ordered).mag, cfg.bit[1] - 1) + 1]>> >>

\* bit 1 of the word 5 is "1", with a scale and an offset that would
\* give another value
C15_Witness ==
    /\ C15_Case
    /\ device = <<5>>
    /\ cfg.bit = <<1>>
    /\ cfg.scale = 2
    /\ cfg.offset = 5
    /\ sensor.value = << <<"1">> >>

\* bit 16 of the word 5 is "0"
C15_HighBitWitness ==
    /\ C15_Case
    /\ device = <<5>>
    /\ cfg.bit = <<16>>
    /\ sensor.value = << <<"0">> >>

(***************************************************************************)
(* C16.  The reverse-order flag.                                           *)
(***************************************************************************)
C16_Case == SensorReadOk /\ slast.raised = "none"

\* C16: the value a successful update() decodes from the words read equals
\* the value the same sensor with the opposite reverse_order decodes from
\* the words in reverse.
C16_ReverseOrder ==
    C16_Case =>
        sensor.value =
            <<sensor_decode([cfg EXCEPT !.reverse_order = ~@], Reverse(device)).value>>

\* two different words, reversed, decoded as a number
C16_Witness ==
    /\ C16_Case
    /\ cfg.reverse_order
    /\ cfg.count = 2
    /\ device[1] # device[2]
    /\ ~Truthy(cfg.bit)
    /\ sensor.value # <<sensor_decode(cfg, Reverse(device)).value>>

(***************************************************************************)
(* C17.  The integer path.                                                 *)
(***************************************************************************)
C17_Case == SensorReadOk /\ ~Truthy(cfg.bit)

\* C17 as stated: the value is the integer scale * v + offset, printed
\* without decimal point for precision 0 and with exactly p zeros after
\* the point for precision p >= 1.
C17_Original == C17_Case => sensor.value = <<Printed(Number, cfg.precision)>>

\* C17 amended: with precision 0, or when the integer scale * v + offset
\* has at most 53 significant bits, the value is that integer printed
\* without decimal point, respectively with exactly p zeros after the
\* point; with precision p >= 1 and a longer integer, the value is printed
\* that way from the nearest multiple of 2 ^ (bits - 53), on a tie the one
\* whose quotient is even.
C17_IntegerPath ==
    C17_Case =>
        /\ slast.raised = "none"
        /\ IF cfg.precision = 0 \/ BitLength(Number.mag) <= 53
           THEN sensor.value = <<Printed(Number, cfg.precision)>>
           ELSE LET k == BitLength(Number.mag) - 53
                    r == float(Number)
                    diff == int_add(r, PyInt(~Number.neg, Number.mag))
                IN  /\ sensor.value = <<Printed(r, cfg.precision)>>
                    /\ r.neg = Number.neg
                    /\ \A i \in 0 .. (k - 1) : Bit(r.mag, i) = 0
                    /\ ~LessDigits(Pow2Digits(k - 1), diff.mag)
                    /\ diff.mag = Pow2Digits(k - 1) => Bit(r.mag, k) = 0

\* raw 100, scale 2, offset 5: "205" followed by a point and zeros
C17_Witness ==
    /\ C17_Case
    /\ device = <<100>>
    /\ cfg.scale = 2
    /\ cfg.offset = 5
    /\ cfg.precision = MaxPrecision
    /\ sensor.value = <<(<<"2", "0", "5", ".">> \o [i \in 1 .. MaxPrecision |-> "0"])>>

\* the same with precision 0
C17_PlainWitness ==
    /\ C17_Case
    /\ device = <<100>>
    /\ cfg.scale = 2
    /\ cfg.offset = 5
    /\ cfg.precision = 0
    /\ sensor.value = << <<"2", "0", "5">> >>

\* a negative reading of an int sensor of two words
C17_SignedWitness ==
    /\ C17_Case
    /\ cfg.data_type = DATA_TYPE_INT
    /\ cfg.count = 2
    /\ Reading.neg
    /\ sensor.value[1][1] = "-"


(***************************************************************************)
(* C21.  A dropped command write followed by a verification read.          *)
(***************************************************************************)
C21_Case ==
    /\ entity = "register"
    /\ cfg.verify_state
    /\ last.op \in Commands
    /\ Len(last.io) = 2
    /\ last.io[1].fn = "write_registers"
    /\ last.io[1].result = "ConnectionException"
    /\ last.io[2].result = "ok"

\* C21: with verification on, a turn_on() or turn_off() whose write raises
\* a connectivity exception and whose verification read succeeds returns
\* without raising, with available true and is_on as the status bit of the
\* word read, which is the word the device holds.
C21_VerificationHidesDrop ==
    C21_Case =>
        /\ last.raised = "none"
        /\ available
        /\ last.io[2].fn = "read_holding_registers"
        /\ last.io[2].value = statusWord
        /\ is_on = Shown(statusWord)

\* turn_on() is dropped, the switch is shown off and available
C21_Witness ==
    /\ C21_Case
    /\ last.op = "turn_on"
    /\ last.pre_available
    /\ is_on = Off
    /\ available


(***************************************************************************)
(* C22.  The register the verification reads.                              *)
(***************************************************************************)
\* the hub calls of the last call that are reads
Reads == { i \in 1 .. Len(last.io) : last.io[i].fn # "write_registers" }

C22_Case ==
    /\ entity = "register"
    /\ last.op \in Commands \cup {"update"}

\* C22: update(), on its own or at the end of a command, makes no read with
\* verification off and exactly one with verification on, as its last hub
\* call: a read of one word of the holding bank at the index of the state
\* token, plus 200 for %QX, whatever verify_register and the configured
\* register kind are.
C22_VerificationRead ==
    C22_Case =>
        /\ Cardinality(Reads) = (IF cfg.verify_state THEN 1 ELSE 0)
        /\ \A i \in Reads :
              /\ i = Len(last.io)
              /\ last.io[i].fn = "read_holding_registers"
              /\ last.io[i].count = 1
              /\ last.io[i].address =
                     IF StToken.area = QX THEN StToken.index + 200 ELSE StToken.index

\* an input switch with verify_register = 7 reads holding register 201
C22_Witness ==
    /\ C22_Case
    /\ last.op = "update"
    /\ "verify_register" \in DOMAIN entry
    /\ cfg.verify_register = 7
    /\ cfg.register_type = CALL_TYPE_REGISTER_INPUT
    /\ StToken.area = QX
    /\ Reads = {1}
    /\ last.io[1].address = 201
    /\ last.io[1].fn = "read_holding_registers"

====
